---- MODULE Spec2Model ----
(***************************************************************************)
(* A model of the Gemini image service wrapper of provadorvirtual          *)
(* (src/unnamed/part_000, the variant that reads its credential from the   *)
(* build environment; src/services/geminiService.ts is the same code       *)
(* with a hard-coded credential and no getAiInstance).                     *)
(*                                                                         *)
(* JavaScript strings are sequences of one-character strings, so that      *)
(* split, match, trim and template interpolation are computed character    *)
(* by character.  The fixed text of a template literal is kept as one      *)
(* element (a chunk) of the sequence it is interpolated into.              *)
(***************************************************************************)
EXTENDS Integers, Sequences, FiniteSets

VARIABLES API_KEY, ai, pc, call, request, calls, response, result, dataUrl, parsed

vars == <<API_KEY, ai, pc, call, request, calls, response, result, dataUrl, parsed>>

(***************************************************************************)
(* JavaScript values                                                       *)
(***************************************************************************)

\* The value undefined where a string may stand: a one-element tuple that is
\* no character sequence.
Undefined == <<"<undefined>">>

\* The value undefined (or null) where an object may stand.
UndefinedObj == [undefined |-> TRUE]

\* Truthiness of a string-or-undefined value: undefined and "" are falsy.
Truthy(v) == v # Undefined /\ v # <<>>

\* What a template literal `${v}` interpolates for a string-or-undefined value.
TemplateString(v) == IF v = Undefined THEN <<"u", "n", "d", "e", "f", "i", "n", "e", "d">> ELSE v

\* Completion of a function call: a returned value or a thrown Error.
Return(v) == [threw |-> FALSE, value |-> v]

Throw(message) == [threw |-> TRUE, error |-> [message |-> message]]

\* Set of all sequences over S of length at most n.
SeqsUpTo(S, n) == UNION {[1..k -> S] : k \in 0..n}

(***************************************************************************)
(* dataUrlToParts                                                          *)
(***************************************************************************)

\* Least index of character c in s, 0 when s has none.
IndexOf(s, c) ==
    IF \E i \in 1..Len(s) : s[i] = c
    THEN CHOOSE i \in 1..Len(s) : s[i] = c /\ \A j \in 1..(i - 1) : s[j] # c
    ELSE 0

\* String.prototype.split(sep) for a one-character separator.
RECURSIVE Split(_, _)
Split(s, sep) ==
    LET i == IndexOf(s, sep)
    IN  IF i = 0 THEN <<s>>
        ELSE <<SubSeq(s, 1, i - 1)>> \o Split(SubSeq(s, i + 1, Len(s)), sep)

\* The characters the regular expression "." does not match.
LineTerminators == {"\n", "\r"}

\* The positions i of s at which /:(.*?);/ matches: s[i] is ":", and a ";"
\* follows with no line terminator in between.
MatchStarts(s) ==
    {i \in 1..Len(s) :
        /\ s[i] = ":"
        /\ \E j \in (i + 1)..Len(s) :
            /\ s[j] = ";"
            /\ \A k \in (i + 1)..(j - 1) : s[k] \notin LineTerminators}

\* s.match(/:(.*?);/): the leftmost match, its lazy group ending at the first
\* ";" after the ":"; UndefinedObj (null) when there is no match.
Match(s) ==
    IF MatchStarts(s) = {} THEN UndefinedObj
    ELSE LET i == CHOOSE i \in MatchStarts(s) : \A k \in MatchStarts(s) : i <= k
             j == CHOOSE j \in (i + 1)..Len(s) :
                    s[j] = ";" /\ \A k \in (i + 1)..(j - 1) : s[k] # ";"
         IN  [group1 |-> SubSeq(s, i + 1, j - 1)]

dataUrlToParts(url) ==
    LET arr == Split(url, ",")
        mimeMatch == Match(arr[1])
    IN  IF Len(arr) < 2 THEN Throw(<<"Invalid data URL">>)
        ELSE IF mimeMatch = UndefinedObj \/ ~Truthy(mimeMatch.group1)
        THEN Throw(<<"Could not parse MIME type from data URL">>)
        ELSE Return([mimeType |-> mimeMatch.group1, data |-> arr[2]])

dataUrlToPart(url) ==
    LET p == dataUrlToParts(url)
    IN  IF p.threw THEN p
        ELSE Return([text |-> Undefined,
                     inlineData |-> [mimeType |-> p.value.mimeType, data |-> p.value.data]])

(***************************************************************************)
(* handleApiResponse                                                       *)
(*                                                                         *)
(* A response is [promptFeedback, candidates, text]; a candidate is        *)
(* [parts, finishReason]; a part is [text, inlineData].  The code reads    *)
(* promptFeedback, candidates, content and parts only through ?. and ??,   *)
(* so an absent promptFeedback is one whose blockReason is undefined, and  *)
(* absent candidates, content or parts are the empty sequence.             *)
(***************************************************************************)

\* The characters String.prototype.trim removes.
WhiteSpace == {" ", "\t", "\n", "\r"}

RECURSIVE TrimStart(_)
TrimStart(s) ==
    IF s # <<>> /\ Head(s) \in WhiteSpace THEN TrimStart(Tail(s)) ELSE s

RECURSIVE TrimEnd(_)
TrimEnd(s) ==
    IF s # <<>> /\ s[Len(s)] \in WhiteSpace THEN TrimEnd(SubSeq(s, 1, Len(s) - 1)) ELSE s

\* Mutant of Trim: only the leading white space is removed.
Trim_StartOnly(s) == TrimStart(s)

Trim(s) == TrimEnd(TrimStart(s))

\* Mutant of Find: the last part that has inlineData.
Find_Last(parts) ==
    IF \E i \in 1..Len(parts) : parts[i].inlineData # UndefinedObj
    THEN LET i == CHOOSE i \in 1..Len(parts) :
                    /\ parts[i].inlineData # UndefinedObj
                    /\ \A j \in (i + 1)..Len(parts) : parts[j].inlineData = UndefinedObj
         IN  parts[i]
    ELSE UndefinedObj

\* parts.find(part => part.inlineData): the first part that has inlineData.
Find(parts) ==
    IF \E i \in 1..Len(parts) : parts[i].inlineData # UndefinedObj
    THEN LET i == CHOOSE i \in 1..Len(parts) :
                    /\ parts[i].inlineData # UndefinedObj
                    /\ \A j \in 1..(i - 1) : parts[j].inlineData = UndefinedObj
         IN  parts[i]
    ELSE UndefinedObj

\* The loop over the candidates: the image part of the first candidate that
\* has one, UndefinedObj when the loop ends without returning.
RECURSIVE FirstImagePart(_)
FirstImagePart(candidates) ==
    IF candidates = <<>> THEN UndefinedObj
    ELSE LET imagePart == Find(Head(candidates).parts)
         IN  IF imagePart # UndefinedObj THEN imagePart
             ELSE FirstImagePart(Tail(candidates))

\* `data:${mimeType};base64,${data}`
ImageDataUrl(inlineData) ==
    <<"d", "a", "t", "a", ":">> \o TemplateString(inlineData.mimeType)
        \o <<";", "b", "a", "s", "e", "6", "4", ",">> \o TemplateString(inlineData.data)

BlockedMessage(blockReason, blockReasonMessage) ==
    <<"A solicitacao foi bloqueada. Motivo: ">> \o TemplateString(blockReason) \o <<". ">>
        \o (IF Truthy(blockReasonMessage) THEN blockReasonMessage ELSE <<>>)

InterruptedMessage(finishReason) ==
    <<"A geracao de imagem parou inesperadamente. Motivo: ">> \o TemplateString(finishReason)
        \o <<". Isso geralmente esta relacionado as configuracoes de seguranca.">>

NoImageMessage(textFeedback) ==
    <<"O modelo de IA nao retornou uma imagem. ">>
        \o (IF Truthy(textFeedback)
            THEN <<"O modelo respondeu com o texto: \"">> \o textFeedback \o <<"\"">>
            ELSE <<"Isso pode acontecer devido a filtros de seguranca ou se a solicitacao for muito complexa. Por favor, tente uma imagem diferente.">>)

\* Mutant of handleApiResponse: the candidates are scanned for an image before
\* the block reason is looked at.
handleApiResponse_ImageBeforeBlock(resp) ==
    LET blockReason == resp.promptFeedback.blockReason
        imagePart == FirstImagePart(resp.candidates)
        finishReason == IF resp.candidates = <<>> THEN Undefined
                        ELSE resp.candidates[1].finishReason
        textFeedback == IF resp.text = Undefined THEN Undefined ELSE Trim(resp.text)
    IN  IF imagePart # UndefinedObj
        THEN Return(ImageDataUrl(imagePart.inlineData))
        ELSE IF Truthy(blockReason)
        THEN Throw(BlockedMessage(blockReason, resp.promptFeedback.blockReasonMessage))
        ELSE IF Truthy(finishReason) /\ finishReason # <<"STOP">>
        THEN Throw(InterruptedMessage(finishReason))
        ELSE Throw(NoImageMessage(textFeedback))

\* Mutant of handleApiResponse: the completion status is read from the last
\* candidate instead of the first.
handleApiResponse_LastCandidateStatus(resp) ==
    LET blockReason == resp.promptFeedback.blockReason
        imagePart == FirstImagePart(resp.candidates)
        finishReason == IF resp.candidates = <<>> THEN Undefined
                        ELSE resp.candidates[Len(resp.candidates)].finishReason
        textFeedback == IF resp.text = Undefined THEN Undefined ELSE Trim(resp.text)
    IN  IF Truthy(blockReason)
        THEN Throw(BlockedMessage(blockReason, resp.promptFeedback.blockReasonMessage))
        ELSE IF imagePart # UndefinedObj
        THEN Return(ImageDataUrl(imagePart.inlineData))
        ELSE IF Truthy(finishReason) /\ finishReason # <<"STOP">>
        THEN Throw(InterruptedMessage(finishReason))
        ELSE Throw(NoImageMessage(textFeedback))

handleApiResponse(resp) ==
    LET blockReason == resp.promptFeedback.blockReason
        imagePart == FirstImagePart(resp.candidates)
        finishReason == IF resp.candidates = <<>> THEN Undefined
                        ELSE resp.candidates[1].finishReason
        textFeedback == IF resp.text = Undefined THEN Undefined ELSE Trim(resp.text)
    IN  IF Truthy(blockReason)
        THEN Throw(BlockedMessage(blockReason, resp.promptFeedback.blockReasonMessage))
        ELSE IF imagePart # UndefinedObj
        THEN Return(ImageDataUrl(imagePart.inlineData))
        ELSE IF Truthy(finishReason) /\ finishReason # <<"STOP">>
        THEN Throw(InterruptedMessage(finishReason))
        ELSE Throw(NoImageMessage(textFeedback))

(***************************************************************************)
(* The responses the service may send, up to a size                        *)
(***************************************************************************)

TextPart(t) == [text |-> t, inlineData |-> UndefinedObj]

ImagePart(mimeType, data) ==
    [text |-> Undefined, inlineData |-> [mimeType |-> mimeType, data |-> data]]

PNG == <<"i", "/", "p">>

JPEG == <<"i", "/", "j">>

\* Two text parts, two well-formed image parts, and image parts whose media type
\* or payload is missing or empty (both fields are optional in the SDK's type).
ResponseParts ==
    {TextPart(<<"o", "k">>),
     TextPart(<<" ">>),
     ImagePart(PNG, <<"Q", "Q">>),
     ImagePart(JPEG, <<"R">>),
     ImagePart(Undefined, <<"Q", "Q">>),
     ImagePart(PNG, Undefined),
     ImagePart(PNG, <<>>)}

FinishReasons == {Undefined, <<"STOP">>, <<"SAFETY">>}

PromptFeedbacks ==
    {[blockReason |-> Undefined, blockReasonMessage |-> Undefined],
     [blockReason |-> <<"SAFETY">>, blockReasonMessage |-> Undefined],
     [blockReason |-> <<"OTHER">>, blockReasonMessage |-> <<"n", "o">>]}

\* The text of the text parts of a sequence of parts, concatenated.
RECURSIVE ConcatText(_)
ConcatText(parts) ==
    IF parts = <<>> THEN <<>>
    ELSE (IF Head(parts).text = Undefined THEN <<>> ELSE Head(parts).text)
            \o ConcatText(Tail(parts))

\* The SDK's response.text: the concatenated text of the first candidate's
\* text parts, undefined when it has none.
ResponseText(candidates) ==
    IF candidates = <<>> \/ \A i \in 1..Len(candidates[1].parts) :
                                candidates[1].parts[i].text = Undefined
    THEN Undefined
    ELSE ConcatText(candidates[1].parts)

\* The candidates with exactly k parts.
CandidatesWith(k) ==
    {[parts |-> p, finishReason |-> f] : p \in [1..k -> ResponseParts], f \in FinishReasons}

\* The candidate lists of size at most n, a candidate counting for one more
\* than the number of its parts.
RECURSIVE CandidateLists(_)
CandidateLists(n) ==
    {<<>>} \cup
    UNION {{<<c>> \o rest : c \in CandidatesWith(k - 1), rest \in CandidateLists(n - k)} :
            k \in 1..n}

Responses(n) ==
    {[promptFeedback |-> f, candidates |-> c, text |-> ResponseText(c)] :
        f \in PromptFeedbacks, c \in CandidateLists(n)}

(***************************************************************************)
(* Specification of the decoder alone: decode a response, then parse the   *)
(* Image Reference it returned as the next operation would                 *)
(***************************************************************************)

MaxResponseSize == 4

NotRun == [run |-> FALSE]

Idle ==
    /\ API_KEY = Undefined
    /\ ai = UndefinedObj
    /\ pc = "idle"
    /\ call = UndefinedObj
    /\ request = UndefinedObj
    /\ calls = 0

InitDecode ==
    /\ Idle
    /\ response \in Responses(MaxResponseSize)
    /\ result = NotRun
    /\ dataUrl = Undefined
    /\ parsed = NotRun

DecodeResponse ==
    /\ result = NotRun
    /\ result' = handleApiResponse(response)
    /\ UNCHANGED <<API_KEY, ai, pc, call, request, calls, response, dataUrl, parsed>>

ParseDecoded ==
    /\ result # NotRun
    /\ ~result.threw
    /\ parsed = NotRun
    /\ dataUrl' = result.value
    /\ parsed' = dataUrlToParts(result.value)
    /\ UNCHANGED <<API_KEY, ai, pc, call, request, calls, response, result>>

NextDecode == DecodeResponse \/ ParseDecoded

SpecDecode == InitDecode /\ [][NextDecode]_vars

(***************************************************************************)
(* Specification of the parser alone: every string over a small alphabet   *)
(***************************************************************************)

MaxUrlLen == 5

UrlChars == {":", ";", ",", "a", "\n"}

DataUrls == SeqsUpTo(UrlChars, MaxUrlLen)

InitParse ==
    /\ Idle
    /\ response = UndefinedObj
    /\ result = NotRun
    /\ dataUrl \in DataUrls
    /\ parsed = NotRun

ParseDataUrl ==
    /\ parsed = NotRun
    /\ parsed' = dataUrlToParts(dataUrl)
    /\ UNCHANGED <<API_KEY, ai, pc, call, request, calls, response, result, dataUrl>>

NextParse == ParseDataUrl

SpecParse == InitParse /\ [][NextParse]_vars

(***************************************************************************)
(* The module's state and the three operations                             *)
(*                                                                         *)
(* One invocation is followed from the call to the settling of the promise *)
(* it returns: pc is "idle" before the call, "reading" while fileToPart    *)
(* awaits the FileReader, "calling" while generateContent is awaited, and  *)
(* "done" once the promise is settled.  call holds the operation's          *)
(* arguments and the event its FileReader failed with, if it did; calls    *)
(* counts the generateContent calls made, request is the last request      *)
(* sent, response what the service call settled with, result the state of  *)
(* the promise returned.                                                   *)
(***************************************************************************)

\* VITE_API_KEY as the build found it: unset, set to the empty string, or set.
ApiKeys == {Undefined, <<>>, <<"k", "e", "y">>}

\* new GoogleGenAI({ apiKey })
GoogleGenAI(apiKey) == [apiKey |-> apiKey]

\* The module-level initialisation of ai: null without a key.
InitAi(key) == IF ~Truthy(key) THEN UndefinedObj ELSE GoogleGenAI(key)

\* Mutant of getAiInstance: the instance is returned unchecked.
getAiInstance_Unchecked == Return(ai)

getAiInstance ==
    IF ai = UndefinedObj
    THEN Throw(<<"A chave de API do Google Gemini nao esta configurada. Por favor, adicione VITE_API_KEY as suas variaveis de ambiente no Netlify e faca o redeploy.">>)
    ELSE Return(ai)

\* A File: its declared media type and the base64 encoding of its content.
Files == [type : {PNG, JPEG}, base64 : {<<>>, <<"Q", "Q">>}]

\* FileReader.readAsDataURL: the reader's result once the file is loaded.
readAsDataURL(file) ==
    <<"d", "a", "t", "a", ":">> \o file.type
        \o <<";", "b", "a", "s", "e", "6", "4", ",">> \o file.base64

\* The event the FileReader's onerror handler is called with.
ReaderErrorEvent == [type |-> "error"]

\* fileToPart, from the moment the reader has loaded the file.
fileToPart(file) ==
    LET p == dataUrlToParts(readAsDataURL(file))
    IN  IF p.threw THEN p
        ELSE Return([text |-> Undefined,
                     inlineData |-> [mimeType |-> p.value.mimeType, data |-> p.value.data]])

model == "gemini-2.5-flash-image-preview"

ModelImagePrompt ==
    <<"Voce e uma IA especialista em fotografia de moda. Transforme a pessoa nesta imagem em uma foto de modelo de corpo inteiro para um site de e-commerce. [...] Retorne APENAS a imagem final.">>

TryOnPrompt ==
    <<"Voce e uma IA especialista em provador virtual. [...] 5.  **Saida:** Retorne APENAS a imagem final editada. Nao inclua nenhum texto.">>

PosePrompt(poseInstruction) ==
    <<"Voce e uma IA especialista em fotografia de moda. Pegue esta imagem e gere-a novamente de uma perspectiva diferente. A pessoa, a roupa e o estilo do fundo devem permanecer identicos. A nova perspectiva deve ser: \"">>
        \o poseInstruction \o <<"\". Retorne APENAS a imagem final.">>

\* The argument of ai.models.generateContent for the given parts.
GenerateContentRequest(parts) ==
    [model |-> model,
     contents |-> [parts |-> parts],
     config |-> [responseModalities |-> <<"IMAGE", "TEXT">>]]

ModelImageParts(userImagePart) == <<userImagePart, TextPart(ModelImagePrompt)>>

\* Mutant of TryOnParts: the garment is put before the model.
TryOnParts_GarmentFirst(modelImagePart, garmentImagePart) ==
    <<garmentImagePart, modelImagePart, TextPart(TryOnPrompt)>>

TryOnParts(modelImagePart, garmentImagePart) ==
    <<modelImagePart, garmentImagePart, TextPart(TryOnPrompt)>>

PoseParts(tryOnImagePart, poseInstruction) ==
    <<tryOnImagePart, TextPart(PosePrompt(poseInstruction))>>

\* The state of the promise an operation returns.
Pending == [state |-> "pending"]

Fulfilled(v) == [state |-> "fulfilled", value |-> v]

Rejected(e) == [state |-> "rejected", reason |-> e]

\* The Image References a caller passes: two well formed, one with no ",", one
\* whose header has no ":".
ImageReferences ==
    {<<"d", "a", "t", "a", ":", "i", "/", "p", ";", "b", "a", "s", "e", "6", "4", ",", "Q", "Q">>,
     <<"d", "a", "t", "a", ":", "i", "/", "j", ";", "b", "a", "s", "e", "6", "4", ",", "R">>,
     <<"Q", "Q">>,
     <<"i", "/", "p", ";", "b", "a", "s", "e", "6", "4", ",", "Q", "Q">>}

PoseInstructions == {<<"top-down view">>, <<>>}

\* What a failed service call rejects with.
TransportErrors == {[message |-> <<"fetch failed">>], [message |-> <<"429 Too Many Requests">>]}

ServiceResponseSize == 2

Init ==
    /\ API_KEY \in ApiKeys
    /\ ai = InitAi(API_KEY)
    /\ pc = "idle"
    /\ call = UndefinedObj
    /\ request = UndefinedObj
    /\ calls = 0
    /\ response = UndefinedObj
    /\ result = NotRun
    /\ dataUrl = Undefined
    /\ parsed = NotRun

\* generateModelImage, up to its first await.
generateModelImage(userImage) ==
    /\ pc = "idle"
    /\ call' = [op |-> "generateModelImage", userImage |-> userImage,
                readerError |-> UndefinedObj]
    /\ IF getAiInstance.threw
       THEN pc' = "done" /\ result' = Rejected(getAiInstance.error)
       ELSE pc' = "reading" /\ result' = Pending
    /\ UNCHANGED <<API_KEY, ai, request, calls, response, dataUrl, parsed>>

\* generateVirtualTryOnImage, up to its first await.
generateVirtualTryOnImage(modelImageUrl, garmentImage) ==
    /\ pc = "idle"
    /\ call' = [op |-> "generateVirtualTryOnImage", modelImageUrl |-> modelImageUrl,
                garmentImage |-> garmentImage, readerError |-> UndefinedObj]
    /\ IF getAiInstance.threw
       THEN pc' = "done" /\ result' = Rejected(getAiInstance.error)
       ELSE IF dataUrlToPart(modelImageUrl).threw
       THEN pc' = "done" /\ result' = Rejected(dataUrlToPart(modelImageUrl).error)
       ELSE pc' = "reading" /\ result' = Pending
    /\ UNCHANGED <<API_KEY, ai, request, calls, response, dataUrl, parsed>>

\* generatePoseVariation, up to its first await: the service call.
generatePoseVariation(tryOnImageUrl, poseInstruction) ==
    /\ pc = "idle"
    /\ call' = [op |-> "generatePoseVariation", tryOnImageUrl |-> tryOnImageUrl,
                poseInstruction |-> poseInstruction]
    /\ IF getAiInstance.threw
       THEN /\ pc' = "done"
            /\ result' = Rejected(getAiInstance.error)
            /\ UNCHANGED <<request, calls>>
       ELSE IF dataUrlToPart(tryOnImageUrl).threw
       THEN /\ pc' = "done"
            /\ result' = Rejected(dataUrlToPart(tryOnImageUrl).error)
            /\ UNCHANGED <<request, calls>>
       ELSE /\ request' = GenerateContentRequest(
                            PoseParts(dataUrlToPart(tryOnImageUrl).value, poseInstruction))
            /\ calls' = calls + 1
            /\ pc' = "calling"
            /\ result' = Pending
    /\ UNCHANGED <<API_KEY, ai, response, dataUrl, parsed>>

\* The file fileToPart is reading.
FileRead == IF call.op = "generateModelImage" THEN call.userImage ELSE call.garmentImage

\* The parts of the request once the file's part is there.
PartsWith(filePart) ==
    IF call.op = "generateModelImage"
    THEN ModelImageParts(filePart)
    ELSE TryOnParts(dataUrlToPart(call.modelImageUrl).value, filePart)

\* reader.onload: fileToPart resolves (or throws), and the operation goes on to
\* the service call.
FileReaderLoad ==
    /\ pc = "reading"
    /\ dataUrl' = readAsDataURL(FileRead)
    /\ IF fileToPart(FileRead).threw
       THEN /\ pc' = "done"
            /\ result' = Rejected(fileToPart(FileRead).error)
            /\ UNCHANGED <<request, calls>>
       ELSE /\ request' = GenerateContentRequest(PartsWith(fileToPart(FileRead).value))
            /\ calls' = calls + 1
            /\ pc' = "calling"
            /\ UNCHANGED result
    /\ UNCHANGED <<API_KEY, ai, call, response, parsed>>

\* reader.onerror: fileToPart rejects with the event, and so does the operation.
FileReaderError ==
    /\ pc = "reading"
    /\ call' = [call EXCEPT !.readerError = ReaderErrorEvent]
    /\ pc' = "done"
    /\ result' = Rejected(ReaderErrorEvent)
    /\ UNCHANGED <<API_KEY, ai, request, calls, response, dataUrl, parsed>>

\* The service call resolves with a response, which handleApiResponse decodes.
GenerateContentResolves(resp) ==
    /\ pc = "calling"
    /\ response' = resp
    /\ pc' = "done"
    /\ result' = IF handleApiResponse(resp).threw
                 THEN Rejected(handleApiResponse(resp).error)
                 ELSE Fulfilled(handleApiResponse(resp).value)
    /\ UNCHANGED <<API_KEY, ai, call, request, calls, dataUrl, parsed>>

\* Mutant of GenerateContentRejects: the request is sent again.
GenerateContentRejects_Retry(e) ==
    /\ pc = "calling"
    /\ response' = [rejected |-> e]
    /\ calls' = calls + 1
    /\ UNCHANGED <<API_KEY, ai, pc, call, request, result, dataUrl, parsed>>

\* The service call rejects: nothing catches it, the operation rejects with it.
GenerateContentRejects(e) ==
    /\ pc = "calling"
    /\ response' = [rejected |-> e]
    /\ pc' = "done"
    /\ result' = Rejected(e)
    /\ UNCHANGED <<API_KEY, ai, call, request, calls, dataUrl, parsed>>

Next ==
    \/ \E f \in Files : generateModelImage(f)
    \/ \E u \in ImageReferences, f \in Files : generateVirtualTryOnImage(u, f)
    \/ \E u \in ImageReferences, i \in PoseInstructions : generatePoseVariation(u, i)
    \/ FileReaderLoad
    \/ FileReaderError
    \/ \E r \in Responses(ServiceResponseSize) : GenerateContentResolves(r)
    \/ \E e \in TransportErrors : GenerateContentRejects(e)

Spec == Init /\ [][Next]_vars

(***************************************************************************)
(* Properties of the three operations (checked under Spec)                 *)
(***************************************************************************)

Invoked == pc # "idle"

NoCredential == API_KEY \in {Undefined, <<>>}

IsConfigurationError(e) ==
    e = [message |-> <<"A chave de API do Google Gemini nao esta configurada. Por favor, adicione VITE_API_KEY as suas variaveis de ambiente no Netlify e faca o redeploy.">>]

\* C1: with no credential configured, each of the three operations fails with
\* the configuration error and never calls the service, whatever its inputs.
C1_FailFastWithoutKey ==
    (NoCredential /\ Invoked) =>
        /\ pc = "done"
        /\ result.state = "rejected"
        /\ IsConfigurationError(result.reason)
        /\ calls = 0
        /\ request = UndefinedObj

\* With the key set to the empty string, a try-on was called with an Image
\* Reference that does not parse, and was rejected for the configuration.
C1_Witness ==
    /\ API_KEY = <<>>
    /\ Invoked
    /\ call.op = "generateVirtualTryOnImage"
    /\ call.modelImageUrl = <<"Q", "Q">>
    /\ result.state = "rejected"
    /\ IsConfigurationError(result.reason)

\* The embedded-image part a binary image input stands for.
PartOfFile(file) ==
    [text |-> Undefined, inlineData |-> [mimeType |-> file.type, data |-> file.base64]]

\* The embedded-image part an Image Reference data:<m>;base64,<p> stands for.
PartOfReference(url) ==
    LET colon == IndexOf(url, ":")
        semi == IndexOf(url, ";")
        comma == IndexOf(url, ",")
    IN  [text |-> Undefined,
         inlineData |-> [mimeType |-> SubSeq(url, colon + 1, semi - 1),
                         data |-> SubSeq(url, comma + 1, Len(url))]]

IsTextPart(part) == part.inlineData = UndefinedObj /\ part.text # Undefined

\* C8: the parts of every request sent are the embedded-image parts of the
\* operation's inputs, in order, followed by one text part: [user image, text],
\* [model image, garment image, text], [composite image, text]; the part of a
\* binary image input has that input's media type and payload.
C8_RequestParts ==
    request # UndefinedObj =>
        LET parts == request.contents.parts
        IN  /\ IsTextPart(parts[Len(parts)])
            /\ \A i \in 1..(Len(parts) - 1) : ~IsTextPart(parts[i])
            /\ call.op = "generateModelImage" =>
                    SubSeq(parts, 1, Len(parts) - 1) = <<PartOfFile(call.userImage)>>
            /\ call.op = "generateVirtualTryOnImage" =>
                    SubSeq(parts, 1, Len(parts) - 1) =
                        <<PartOfReference(call.modelImageUrl), PartOfFile(call.garmentImage)>>
            /\ call.op = "generatePoseVariation" =>
                    /\ SubSeq(parts, 1, Len(parts) - 1) = <<PartOfReference(call.tryOnImageUrl)>>
                    /\ \E i \in 1..Len(parts[Len(parts)].text) :
                            SubSeq(parts[Len(parts)].text, i, i + Len(call.poseInstruction) - 1)
                                = call.poseInstruction

\* A try-on request was sent whose model image and garment image differ.
C8_Witness ==
    /\ request # UndefinedObj
    /\ call.op = "generateVirtualTryOnImage"
    /\ call.garmentImage = [type |-> PNG, base64 |-> <<"Q", "Q">>]
    /\ call.modelImageUrl =
        <<"d", "a", "t", "a", ":", "i", "/", "j", ";", "b", "a", "s", "e", "6", "4", ",", "R">>
    /\ Len(request.contents.parts) = 3

ServiceRejected == response # UndefinedObj /\ "rejected" \in DOMAIN response

ServiceResolved == response # UndefinedObj /\ "candidates" \in DOMAIN response

\* The Image Reference argument of the operation called, if it has one.
HasReferenceArgument == Invoked /\ call.op # "generateModelImage"

ReferenceArgument ==
    IF call.op = "generateVirtualTryOnImage" THEN call.modelImageUrl ELSE call.tryOnImageUrl

\* C9: an invocation makes at most one service call, and once a configuration,
\* format, file-read, transport or decode failure has occurred the invocation
\* has ended, rejected with that failure, with no service call after it and no
\* Image Reference returned.
C9_ErrorsTerminal ==
    /\ calls <= 1
    /\ (Invoked /\ result.state = "rejected") => pc = "done"
    /\ (Invoked /\ NoCredential) =>
            /\ result.state = "rejected"
            /\ IsConfigurationError(result.reason)
            /\ calls = 0
    /\ (HasReferenceArgument /\ ~NoCredential /\ dataUrlToParts(ReferenceArgument).threw) =>
            /\ result = Rejected(dataUrlToParts(ReferenceArgument).error)
            /\ calls = 0
    /\ (Invoked /\ call.op # "generatePoseVariation" /\ call.readerError # UndefinedObj) =>
            /\ result = Rejected(call.readerError)
            /\ calls = 0
    /\ ServiceRejected =>
            /\ result = Rejected(response.rejected)
            /\ pc = "done"
            /\ calls = 1
    /\ (ServiceResolved /\ handleApiResponse(response).threw) =>
            /\ result = Rejected(handleApiResponse(response).error)
            /\ pc = "done"
            /\ calls = 1

\* The service call of a try-on was rejected, and so was the invocation.
C9_Witness ==
    /\ pc = "done"
    /\ call.op = "generateVirtualTryOnImage"
    /\ ServiceRejected
    /\ response.rejected = [message |-> <<"fetch failed">>]
    /\ result = Rejected([message |-> <<"fetch failed">>])
    /\ calls = 1

(***************************************************************************)
(* Properties of handleApiResponse (checked under SpecDecode)              *)
(***************************************************************************)

\* All parts of a response, candidate after candidate.
RECURSIVE AllParts(_)
AllParts(candidates) ==
    IF candidates = <<>> THEN <<>>
    ELSE Head(candidates).parts \o AllParts(Tail(candidates))

HasImage(resp) == \E i \in 1..Len(AllParts(resp.candidates)) :
                    AllParts(resp.candidates)[i].inlineData # UndefinedObj

\* The inlineData of the first part, in candidate-major order, that has one.
FirstImage(resp) ==
    LET all == AllParts(resp.candidates)
        i == CHOOSE i \in 1..Len(all) :
                /\ all[i].inlineData # UndefinedObj
                /\ \A j \in 1..(i - 1) : all[j].inlineData = UndefinedObj
    IN  all[i].inlineData

Blocked(resp) ==
    resp.promptFeedback.blockReason \notin {Undefined, <<>>}

Decoded == result # NotRun

\* A string as the text of a message: itself, or "undefined" when missing.
Text(v) == IF v = Undefined THEN <<"u", "n", "d", "e", "f", "i", "n", "e", "d">> ELSE v

IsBlockedError(r, reason, message) ==
    /\ r.threw
    /\ r.error.message = <<"A solicitacao foi bloqueada. Motivo: ">> \o reason \o <<". ">> \o message

IsInterruptedError(r, status) ==
    /\ r.threw
    /\ Len(r.error.message) >= 2
    /\ Head(r.error.message) = "A geracao de imagem parou inesperadamente. Motivo: "
    /\ SubSeq(r.error.message, 2, Len(r.error.message) - 1) = status

IsNoImageError(r) ==
    /\ r.threw
    /\ Head(r.error.message) = "O modelo de IA nao retornou uma imagem. "

IsGenericNoImageError(r) ==
    /\ IsNoImageError(r)
    /\ Len(r.error.message) = 2
    /\ r.error.message[2] = "Isso pode acontecer devido a filtros de seguranca ou se a solicitacao for muito complexa. Por favor, tente uma imagem diferente."

\* The NoImage error that quotes text t.
IsNoImageErrorWithText(r, t) ==
    /\ IsNoImageError(r)
    /\ Tail(r.error.message) = <<"O modelo respondeu com o texto: \"">> \o t \o <<"\"">>

\* C2: decoding a response that carries a top-level block reason always fails
\* with the Blocked error carrying that reason and the block message if any,
\* whatever the candidates hold, so no Image Reference is returned.
C2_BlockedFirst ==
    (Decoded /\ Blocked(response)) =>
        IsBlockedError(result, response.promptFeedback.blockReason,
                       IF response.promptFeedback.blockReasonMessage = Undefined
                       THEN <<>> ELSE response.promptFeedback.blockReasonMessage)

\* A blocked response one of whose candidates holds an image part was decoded.
C2_Witness ==
    /\ Decoded
    /\ Blocked(response)
    /\ response.promptFeedback.blockReasonMessage # Undefined
    /\ HasImage(response)
    /\ result.threw

\* C3: with no block reason, decode returns data:<mediaType>;base64,<payload>
\* built from the first part, candidate after candidate and part after part,
\* that has embedded image data; nothing else in the response affects it.  (A
\* missing field has no text: the reference then reads "undefined" there.)
C3_FirstImageVerbatim ==
    (Decoded /\ ~Blocked(response) /\ HasImage(response)) =>
        /\ ~result.threw
        /\ result.value = <<"d", "a", "t", "a", ":">> \o Text(FirstImage(response).mimeType)
                            \o <<";", "b", "a", "s", "e", "6", "4", ",">>
                            \o Text(FirstImage(response).data)

\* The first candidate has no part and stopped for SAFETY; the second holds two
\* different image parts, and the reference is built from the first of them.
C3_Witness ==
    /\ Decoded
    /\ ~Blocked(response)
    /\ Len(response.candidates) = 2
    /\ response.candidates[1].finishReason = <<"SAFETY">>
    /\ response.candidates[1].parts = <<>>
    /\ response.candidates[2].parts = <<ImagePart(JPEG, <<"R">>), ImagePart(PNG, <<"Q", "Q">>)>>
    /\ ~result.threw
    /\ result.value = <<"d", "a", "t", "a", ":", "i", "/", "j", ";", "b", "a", "s", "e", "6", "4", ",", "R">>

\* C4: decode never returns an Image Reference built from a part whose media
\* type is missing or whose payload is missing or empty.
C4_NoMalformedImage ==
    (Decoded /\ ~result.threw) =>
        /\ FirstImage(response).mimeType # Undefined
        /\ FirstImage(response).data # Undefined
        /\ FirstImage(response).data # <<>>

\* C5: with no block reason and no image part, a first candidate's completion
\* status that is present and not "STOP" makes decode fail with the Interrupted
\* error carrying that status, whatever text the response carries and whatever
\* the status of the other candidates.
C5_Interrupted ==
    (Decoded /\ ~Blocked(response) /\ ~HasImage(response)
        /\ response.candidates # <<>>
        /\ response.candidates[1].finishReason \notin {Undefined, <<>>, <<"STOP">>}) =>
        IsInterruptedError(result, response.candidates[1].finishReason)

\* The first candidate stopped for SAFETY, the second for STOP, and the response
\* carries text.
C5_Witness ==
    /\ Decoded
    /\ ~Blocked(response)
    /\ ~HasImage(response)
    /\ Len(response.candidates) = 2
    /\ response.candidates[1].finishReason = <<"SAFETY">>
    /\ response.candidates[2].finishReason = <<"STOP">>
    /\ response.text = <<"o", "k">>
    /\ IsInterruptedError(result, <<"SAFETY">>)

NormalStop(resp) ==
    \/ resp.candidates = <<>>
    \/ resp.candidates[1].finishReason \in {Undefined, <<"STOP">>}

\* t is s without its leading and trailing white space.
IsTrimOf(t, s) ==
    \E i \in 1..(Len(s) + 1), j \in 0..Len(s) :
        /\ t = SubSeq(s, i, j)
        /\ \A k \in 1..(i - 1) : s[k] \in {" ", "\t", "\n", "\r"}
        /\ \A k \in (j + 1)..Len(s) : s[k] \in {" ", "\t", "\n", "\r"}
        /\ i <= j => (s[i] \notin {" ", "\t", "\n", "\r"} /\ s[j] \notin {" ", "\t", "\n", "\r"})
        /\ i > j => t = <<>>

\* C6 as stated: with no block reason, no image part and a first-candidate
\* status absent or "STOP", decode fails with NoImage, which embeds the
\* response's text when the response carries text and is generic otherwise.
C6_TextAlwaysEmbedded ==
    (Decoded /\ ~Blocked(response) /\ ~HasImage(response) /\ NormalStop(response)) =>
        IF response.text \notin {Undefined, <<>>}
        THEN /\ IsNoImageError(result)
             /\ Len(result.error.message) >= 3
             /\ result.error.message[2] = "O modelo respondeu com o texto: \""
             /\ result.error.message[Len(result.error.message)] = "\""
             /\ LET t == SubSeq(result.error.message, 3, Len(result.error.message) - 1)
                IN  t = response.text \/ IsTrimOf(t, response.text)
        ELSE IsGenericNoImageError(result)

\* C6 amended: the NoImage error embeds the response's text with its leading
\* and trailing white space removed when that leaves any text, and is the
\* generic NoImage error when the response carries no text or only white space.
C6_TrimmedTextEmbedded ==
    (Decoded /\ ~Blocked(response) /\ ~HasImage(response) /\ NormalStop(response)) =>
        IF response.text # Undefined /\ ~IsTrimOf(<<>>, response.text)
        THEN /\ IsNoImageError(result)
             /\ Len(result.error.message) >= 3
             /\ result.error.message[2] = "O modelo respondeu com o texto: \""
             /\ result.error.message[Len(result.error.message)] = "\""
             /\ IsTrimOf(SubSeq(result.error.message, 3, Len(result.error.message) - 1),
                         response.text)
        ELSE IsGenericNoImageError(result)

\* Text with white space around it was embedded, the first candidate having
\* stopped normally and the second not.
C6_Witness ==
    /\ Decoded
    /\ ~Blocked(response)
    /\ ~HasImage(response)
    /\ Len(response.candidates) = 2
    /\ response.candidates[1].finishReason = <<"STOP">>
    /\ response.candidates[2].finishReason = <<"SAFETY">>
    /\ response.text = <<" ", "o", "k">>
    /\ IsNoImageErrorWithText(result, <<"o", "k">>)

\* C10: whenever decode returns an Image Reference built from an image part
\* with media type m and payload p, parsing that reference succeeds and yields
\* exactly m and p.
C10_RoundTrip ==
    (Decoded /\ ~result.threw /\ parsed # NotRun) =>
        /\ ~parsed.threw
        /\ parsed.value.mimeType = FirstImage(response).mimeType
        /\ parsed.value.data = FirstImage(response).data

(***************************************************************************)
(* Properties of dataUrlToParts (checked under SpecParse)                  *)
(***************************************************************************)

\* C7: parsing fails if the string has no "," or if its header, the text before
\* the first ",", has no media-type marker (a non-empty media type between ":"
\* and ";"); in every other case it returns the media type of the header and
\* the payload after the separator.
C7_ParseContract ==
    parsed # NotRun =>
        LET i == IndexOf(dataUrl, ",")
            header == SubSeq(dataUrl, 1, i - 1)
            payload == SubSeq(dataUrl, i + 1, Len(dataUrl))
        IN  IF i = 0 \/ Match(header) = UndefinedObj \/ Match(header).group1 = <<>>
            THEN parsed.threw
            ELSE /\ ~parsed.threw
                 /\ parsed.value.mimeType = Match(header).group1
                 /\ parsed.value.data = payload

====
